---------------------------- MODULE Spec2Model ----------------------------
(***************************************************************************)
(* skyportal_spatial: three interchangeable spatial backends (Unindexed,   *)
(* Q3C, PostGIS) mixed into a coordinate carrier, and the module-level     *)
(* backend selection of clock.py.                                          *)
(*                                                                         *)
(* Angles are degrees on a grid on which the trigonometry of none.py is    *)
(* exact in rational arithmetic: ra a multiple of 60, dec in {-90, 0, 90}. *)
(* Python values are records [k, v]: k is the type ("None", "float",       *)
(* "str", ...) or the exception raised, v the payload.                     *)
(***************************************************************************)
EXTENDS Integers, Sequences, FiniteSets, TLC

VARIABLES
    conf,     \* the index_type entry of config.yaml, as clock.py reads it
    itype,    \* clock.py: itype
    Spatial,  \* clock.py: the backend class bound to Object
    sup,      \* per carrier: the ra/dec values the caller last wrote
    cols,     \* per carrier: the ra/dec columns (Unindexed, Q3C)
    radec,    \* per carrier: the packed geography column (PostGIS)
    ret       \* the last call and what it returned or raised

vars == <<conf, itype, Spatial, sup, cols, radec, ret>>

----------------------------------------------------------------------------
(* Bounds of the model *)

\* the stored longitude is kept within -180 .. 180 + 180 * MaxTurns
MaxTurns == 1

\* the carriers: distance and radially_within take two, self and other
Objs == {1, 2}

RaVals == {0, 60}

DecVals == {0, 90}

----------------------------------------------------------------------------
(* Python values *)

None == [k |-> "None", v |-> 0]

Float(x) == [k |-> "float", v |-> x]

Raise(e) == [k |-> e, v |-> 0]

\* DataError: the record store rejecting a geography text
Exceptions ==
    {"ValueError", "TypeError", "KeyError", "AttributeError", "DataError"}

IsExc(r) == r.k \in Exceptions

\* format(x) inside an f-string: None prints as the word None, a float as
\* its decimal numeral
Format(x) == IF x.k = "None" THEN [w |-> "None", n |-> 0]
             ELSE [w |-> "num", n |-> x.v]

\* float(word): only a numeral parses
float(word) == IF word.w = "num" THEN Float(word.n) ELSE Raise("ValueError")

\* the text 'POINT(x y)', kept as its two words
Point(x, y) == [k |-> "str", v |-> <<x, y>>]

\* None where a text may stand
NoText == [k |-> "None", v |-> <<>>]

----------------------------------------------------------------------------
(* PostGISSpatialBackend: the packed column and its ra/dec accessors *)

DEFAULT == Point([w |-> "NULL", n |-> 0], [w |-> "NULL", n |-> 0])

_splstr(rd) == rd.v

_complete(rd) ==
    IF rd.k = "None" THEN FALSE
    ELSE \A i \in 1 .. Len(_splstr(rd)) : _splstr(rd)[i].w # "NULL"

ra_get(rd) ==
    IF ~_complete(rd) THEN None
    ELSE LET f == float(_splstr(rd)[1])
         IN  IF IsExc(f) THEN f ELSE Float(f.v + 180)

dec_get(rd) ==
    IF ~_complete(rd) THEN None
    ELSE float(_splstr(rd)[2])

\* a setter returns the new column value and what the call raised (None:
\* nothing)
ra_set(rd, value) ==
    LET r1 == IF rd.k = "None" THEN DEFAULT ELSE rd
        d  == dec_get(r1)
    IN  IF IsExc(d) THEN [radec |-> r1, exc |-> d]
        ELSE [radec |-> Point(Format(Float(value - 180)), Format(d)),
              exc |-> None]

dec_set(rd, value) ==
    LET r1 == IF rd.k = "None" THEN DEFAULT ELSE rd
        r  == ra_get(r1)
    IN  IF IsExc(r) THEN [radec |-> r1, exc |-> r]
        ELSE [radec |-> Point(Format(r), Format(Float(value))),
              exc |-> None]

----------------------------------------------------------------------------
(* Numbers of the query expressions.  A number is (n/d) * pi^pi * R^R with  *)
(* n/d in lowest terms, pi the irrational np.pi and R the value of RADIUS   *)
(* in meters, both kept as exact symbols; d = 0 marks SQL NULL.  Sums and   *)
(* comparisons are between numbers of the same powers of pi and R.          *)

RECURSIVE GCD(_, _)
GCD(a, b) == IF b = 0 THEN a ELSE GCD(b, a % b)

Abs(x) == IF x < 0 THEN -x ELSE x

Null == [n |-> 0, d |-> 0, pi |-> 0, R |-> 0]

IsNull(a) == a.d = 0

Rat(n, d, p, r) ==
    LET g == GCD(Abs(n), Abs(d))
        s == IF d < 0 THEN -1 ELSE 1
    IN  [n |-> s * (n \div g), d |-> s * (d \div g), pi |-> p, R |-> r]

Num(x) == [n |-> x, d |-> 1, pi |-> 0, R |-> 0]

Mul(a, b) ==
    IF IsNull(a) \/ IsNull(b) THEN Null
    ELSE LET g1 == GCD(Abs(a.n), b.d)
             g2 == GCD(Abs(b.n), a.d)
         IN  Rat((a.n \div g1) * (b.n \div g2), (a.d \div g2) * (b.d \div g1),
                 a.pi + b.pi, a.R + b.R)

Div(a, b) ==
    IF IsNull(a) \/ IsNull(b) THEN Null
    ELSE Mul(a, Rat(b.d, b.n, -b.pi, -b.R))

Add(a, b) ==
    IF IsNull(a) \/ IsNull(b) THEN Null
    ELSE Rat(a.n * b.d + b.n * a.d, a.d * b.d, a.pi, a.R)

Sub(a, b) == Add(a, Mul(Num(-1), b))

Less(a, b) == a.n * b.d < b.n * a.d

\* a <= b in SQL: "true", "false", or "null" when an operand is NULL
Leq(a, b) ==
    IF IsNull(a) \/ IsNull(b) THEN "null"
    ELSE IF ~Less(b, a) THEN "true" ELSE "false"

\* a Python float or None bound into an expression
Bind(x) == IF x.k = "None" THEN Null ELSE Num(x.v)

np_pi == [n |-> 1, d |-> 1, pi |-> 1, R |-> 0]

----------------------------------------------------------------------------
(* Functions of the record store the expressions call *)

\* x radians, a rational multiple of pi, in degrees within 0 .. 359
DegOf(x) == ((x.n * 180) \div x.d) % 360

cos(x) ==
    IF IsNull(x) THEN Null
    ELSE CASE DegOf(x) = 0 -> Num(1)
           [] DegOf(x) \in {60, 300} -> Rat(1, 2, 0, 0)
           [] DegOf(x) \in {90, 270} -> Num(0)
           [] DegOf(x) \in {120, 240} -> Rat(-1, 2, 0, 0)
           [] DegOf(x) = 180 -> Num(-1)

sin(x) ==
    IF IsNull(x) THEN Null
    ELSE CASE DegOf(x) \in {0, 180} -> Num(0)
           [] DegOf(x) = 90 -> Num(1)
           [] DegOf(x) = 270 -> Num(-1)

acos(x) ==
    IF IsNull(x) THEN Null
    ELSE CASE x = Num(1) -> Rat(0, 1, 1, 0)
           [] x = Rat(1, 2, 0, 0) -> Rat(1, 3, 1, 0)
           [] x = Num(0) -> Rat(1, 2, 1, 0)
           [] x = Rat(-1, 2, 0, 0) -> Rat(2, 3, 1, 0)
           [] x = Num(-1) -> Rat(1, 1, 1, 0)

\* GREATEST and LEAST skip NULL arguments
greatest(a, b) ==
    IF IsNull(a) THEN b ELSE IF IsNull(b) THEN a
    ELSE IF Less(a, b) THEN b ELSE a

least(a, b) ==
    IF IsNull(a) THEN b ELSE IF IsNull(b) THEN a
    ELSE IF Less(b, a) THEN b ELSE a

\* the direction of (lon, lat) as a unit vector, scaled by 2
Vec(lon, lat) ==
    IF lat = 90 THEN <<0, 0, 2>>
    ELSE IF lat = -90 THEN <<0, 0, -2>>
    ELSE CASE lon % 360 = 0 -> <<2, 0, 0>>
           [] lon % 360 = 180 -> <<-2, 0, 0>>
           [] lon % 360 = 60 -> <<1, 1, 0>>
           [] lon % 360 = 120 -> <<-1, 1, 0>>
           [] lon % 360 = 240 -> <<-1, -1, 0>>
           [] lon % 360 = 300 -> <<1, -1, 0>>

\* great-circle separation in degrees, from the dot product of the two
\* directions (the second component of Vec stands for sqrt(3)/2 per unit)
SepDeg(lon1, lat1, lon2, lat2) ==
    LET u == Vec(lon1, lat1)
        v == Vec(lon2, lat2)
        dot4 == u[1] * v[1] + 3 * u[2] * v[2] + u[3] * v[3]
    IN  CASE dot4 = 4 -> 0
          [] dot4 = 2 -> 60
          [] dot4 = 0 -> 90
          [] dot4 = -2 -> 120
          [] dot4 = -4 -> 180

\* q3c_dist(ra1, dec1, ra2, dec2): degrees
q3c_dist(ra1, dec1, ra2, dec2) ==
    IF IsNull(ra1) \/ IsNull(dec1) \/ IsNull(ra2) \/ IsNull(dec2) THEN Null
    ELSE Num(SepDeg(ra1.n, dec1.n, ra2.n, dec2.n))

\* q3c_radial_query(ra, dec, center_ra, center_dec, radius): degrees
q3c_radial_query(ra, dec, cra, cdec, radius) ==
    Leq(q3c_dist(ra, dec, cra, cdec), radius)

\* q3c_join(leftra, leftdec, rightra, rightdec, radius): degrees
q3c_join(lra, ldec, rra, rdec, radius) ==
    Leq(q3c_dist(lra, ldec, rra, rdec), radius)

\* the geography value of a text or None: [lon, lat], NULL (ok = "null"), or
\* rejected by the store (ok = "error": a word that is no numeral)
Geog(rd) ==
    IF rd.k = "None" THEN [ok |-> "null", lon |-> 0, lat |-> 0]
    ELSE IF rd.v[1].w = "num" /\ rd.v[2].w = "num"
         THEN [ok |-> "geog", lon |-> rd.v[1].n, lat |-> rd.v[2].n]
         ELSE [ok |-> "error", lon |-> 0, lat |-> 0]

\* ST_Distance(g1, g2, use_spheroid = false): meters on the sphere, whose
\* radius is the one RADIUS stands for
ST_Distance(g1, g2) ==
    IF g1.ok # "geog" \/ g2.ok # "geog" THEN Null
    ELSE Rat(SepDeg(g1.lon, g1.lat, g2.lon, g2.lat), 180, 1, 1)

\* ST_DWithin(g1, g2, meters, use_spheroid = false)
ST_DWithin(g1, g2, meters) == Leq(ST_Distance(g1, g2), meters)

----------------------------------------------------------------------------
(* What a backend method is called with.  An operand is the class bound to  *)
(* a row (kind "class"), an instance, or any other Python value; cls is its *)
(* class, ra/dec/radec the attribute values it holds.                       *)

Operand(kind, cls, r, d, rd) ==
    [kind |-> kind, cls |-> cls, ra |-> r, dec |-> d, radec |-> rd]

Backends ==
    {"PostGISSpatialBackend", "Q3CSpatialBackend", "UnindexedSpatialBackend"}

\* other.ra, other.dec, other.radec: the value, or AttributeError
GetAttr(o, name) ==
    IF o.kind \notin {"class", "instance"} \/ o.cls = "Unrelated"
    THEN Raise("AttributeError")
    ELSE IF o.cls = "PostGISSpatialBackend"
    THEN CASE name = "radec" -> o.radec
           [] name = "ra" -> ra_get(o.radec)
           [] name = "dec" -> dec_get(o.radec)
    ELSE IF o.cls = "Duck"
    THEN CASE name = "radec" -> o.radec
           [] name = "ra" -> o.ra
           [] name = "dec" -> o.dec
    ELSE CASE name = "radec" -> Raise("AttributeError")
           [] name = "ra" -> o.ra
           [] name = "dec" -> o.dec

isinstance(o, cls) == o.kind = "instance" /\ o.cls = cls

\* issubclass(o, cls): TypeError when o is no class
issubclass(o, cls) ==
    IF o.kind # "class" THEN Raise("TypeError")
    ELSE [k |-> "bool", v |-> IF o.cls = cls THEN 1 ELSE 0]

Expr(fn, v) == [k |-> "expr", fn |-> fn, v |-> v]

----------------------------------------------------------------------------
(* UnindexedSpatialBackend *)

DEG_TO_RAD == Div(np_pi, Num(180))

RADIANS_PER_ARCSEC == Div(DEG_TO_RAD, Num(3600))

\* cf of distance with other.ra left out
none_cf_self_only(self_ra, other_ra) == cos(Mul(self_ra, DEG_TO_RAD))

none_cf(self_ra, other_ra) == cos(Mul(Sub(self_ra, other_ra), DEG_TO_RAD))

\* the sum of cosines whose arccos is the separation
none_cos_sum(self_ra, self_dec, other_ra, other_dec) ==
    LET ca1 == cos(Mul(Sub(Num(90), self_dec), DEG_TO_RAD))
        ca2 == cos(Mul(Sub(Num(90), other_dec), DEG_TO_RAD))
        sa1 == sin(Mul(Sub(Num(90), self_dec), DEG_TO_RAD))
        sa2 == sin(Mul(Sub(Num(90), other_dec), DEG_TO_RAD))
        cf  == none_cf(self_ra, other_ra)
    IN  Add(Mul(ca1, ca2), Mul(Mul(sa1, sa2), cf))

\* roundoff_safe = greatest(sum, -1)
roundoff_safe_greatest(x) == greatest(x, Num(-1))

\* the second bound of roundoff_safe left out
roundoff_safe_unbounded(x) == x

\* roundoff_safe = least(roundoff_safe, 1)
roundoff_safe_least(x) == least(x, Num(1))

\* acos(roundoff_safe) / RADIANS_PER_ARCSEC
none_arcsec(roundoff_safe) == Div(acos(roundoff_safe), RADIANS_PER_ARCSEC)

none_distance(self, other) ==
    LET ora == GetAttr(other, "ra")
        odec == GetAttr(other, "dec")
    IN  IF IsExc(odec) THEN odec
        ELSE IF IsExc(ora) THEN ora
        ELSE
        LET sum == none_cos_sum(Bind(self.ra), Bind(self.dec),
                                Bind(ora), Bind(odec))
            roundoff_safe == roundoff_safe_least(roundoff_safe_greatest(sum))
        IN  Expr("acos", none_arcsec(roundoff_safe))

none_radially_within(self, other, angular_sep_arcsec) ==
    LET d == none_distance(self, other)
    IN  IF IsExc(d) THEN d
        ELSE Expr("<=", Leq(d.v, Num(angular_sep_arcsec)))

----------------------------------------------------------------------------
(* Q3CSpatialBackend.  radially_within yields the function chosen and its   *)
(* five arguments, or the exception raised.                                 *)

\* the conversion factor of arcminutes in place of arcseconds
DEGREES_PER_ARCMIN == Div(Num(1), Num(60))

DEGREES_PER_ARCSEC == Div(Num(1), Num(3600))

q3c_distance(self, other) ==
    LET ora == GetAttr(other, "ra")
        odec == GetAttr(other, "dec")
    IN  IF IsExc(ora) THEN ora
        ELSE IF IsExc(odec) THEN odec
        ELSE Expr("q3c_dist",
                  Mul(q3c_dist(Bind(self.ra), Bind(self.dec),
                               Bind(ora), Bind(odec)), Num(3600)))

\* radially_within with the two primitives exchanged
q3c_radially_within_exchanged(self, other, angular_sep_arcsec) ==
    LET sub == issubclass(other, "Q3CSpatialBackend")
        fn  == IF isinstance(other, "Q3CSpatialBackend")
               THEN [k |-> "str", v |-> "q3c_join"]
               ELSE IF IsExc(sub) THEN sub
               ELSE IF sub.v = 1 THEN [k |-> "str", v |-> "q3c_radial_query"]
               ELSE Raise("ValueError")
    IN  IF IsExc(fn) THEN fn
        ELSE [k |-> "expr", fn |-> fn.v,
              args |-> <<Bind(GetAttr(other, "ra")),
                         Bind(GetAttr(other, "dec")),
                         Bind(self.ra), Bind(self.dec),
                         Mul(Num(angular_sep_arcsec), DEGREES_PER_ARCSEC)>>]

q3c_radially_within(self, other, angular_sep_arcsec) ==
    LET sub == issubclass(other, "Q3CSpatialBackend")
        fn  == IF isinstance(other, "Q3CSpatialBackend")
               THEN [k |-> "str", v |-> "q3c_radial_query"]
               ELSE IF IsExc(sub) THEN sub
               ELSE IF sub.v = 1 THEN [k |-> "str", v |-> "q3c_join"]
               ELSE Raise("ValueError")
    IN  IF IsExc(fn) THEN fn
        ELSE [k |-> "expr", fn |-> fn.v,
              args |-> <<Bind(GetAttr(other, "ra")),
                         Bind(GetAttr(other, "dec")),
                         Bind(self.ra), Bind(self.dec),
                         Mul(Num(angular_sep_arcsec), DEGREES_PER_ARCSEC)>>]

\* the store's value of a q3c_radially_within expression
q3c_eval(e) ==
    IF e.fn = "q3c_radial_query"
    THEN q3c_radial_query(e.args[1], e.args[2], e.args[3], e.args[4], e.args[5])
    ELSE q3c_join(e.args[1], e.args[2], e.args[3], e.args[4], e.args[5])

----------------------------------------------------------------------------
(* PostGISSpatialBackend: distance and radially_within *)

\* RADIUS = 6370986. * 1.00000357 meters, kept as the symbol R
RADIUS == [n |-> 1, d |-> 1, pi |-> 0, R |-> 1]

postgis_RADIANS_PER_ARCSEC == Div(Div(np_pi, Num(180)), Num(3600))

postgis_distance(self, other) ==
    LET ord == GetAttr(other, "radec")
    IN  IF IsExc(ord) THEN ord
        ELSE LET dist_m == ST_Distance(Geog(self.radec), Geog(ord))
             IN  Expr("ST_Distance",
                      Div(Div(dist_m, RADIUS), postgis_RADIANS_PER_ARCSEC))

\* eqdist with the radius taken as degrees
postgis_eqdist_degrees(angular_sep_arcsec) ==
    Mul(Mul(RADIUS, Num(angular_sep_arcsec)), Div(np_pi, Num(180)))

postgis_eqdist(angular_sep_arcsec) ==
    Mul(Mul(RADIUS, Num(angular_sep_arcsec)), postgis_RADIANS_PER_ARCSEC)

postgis_radially_within(self, other, angular_sep_arcsec) ==
    LET ord == GetAttr(other, "radec")
    IN  IF IsExc(ord) THEN ord
        ELSE Expr("ST_DWithin",
                  ST_DWithin(Geog(self.radec), Geog(ord),
                             postgis_eqdist(angular_sep_arcsec)))

----------------------------------------------------------------------------
(* clock.py: the backend selection *)

\* a value of the configuration: k its type, v its text
Cfg(k, v) == [k |-> k, v |-> v]

\* the index_type entry: missing, null, a number, or a string
ConfVals ==
    { [has |-> FALSE, val |-> Cfg("None", "")],
      [has |-> TRUE, val |-> Cfg("None", "")],
      [has |-> TRUE, val |-> Cfg("int", "5")] }
    \cup { [has |-> TRUE, val |-> Cfg("str", s)] :
             s \in {"PostGIS", "q3c", "rtree"} }

\* str.lower() on the strings of ConfVals
lower(s) == CASE s = "PostGIS" -> "postgis"
              [] OTHER -> s

\* conf['index_type'] and the lowering: itype, or the exception raised
read_itype(c) ==
    IF ~c.has THEN Cfg("KeyError", "")
    ELSE IF c.val.k = "None" THEN Cfg("None", "")
    ELSE IF c.val.k = "str" THEN Cfg("str", lower(c.val.v))
    ELSE Cfg("AttributeError", "")

select(it) ==
    IF IsExc(it) THEN it.k
    ELSE IF it.k = "str" /\ it.v = "postgis" THEN "PostGISSpatialBackend"
    ELSE IF it.k = "str" /\ it.v = "q3c" THEN "Q3CSpatialBackend"
    ELSE "UnindexedSpatialBackend"

----------------------------------------------------------------------------
(* State machine *)

Fresh == [ra |-> None, dec |-> None]

Ret(op, other, val) ==
    [op |-> op, okind |-> other.kind, ocls |-> other.cls, val |-> val]

NoOperand == Operand("", "", None, None, NoText)

Init ==
    /\ conf = [has |-> FALSE, val |-> Cfg("None", "")]
    /\ itype = Cfg("None", "")
    /\ Spatial = "unbound"
    /\ sup = [i \in Objs |-> Fresh]
    /\ cols = [i \in Objs |-> Fresh]
    /\ radec = [i \in Objs |-> NoText]
    /\ ret = Ret("init", NoOperand, None)

\* clock.py runs its module body once, at import
Import(c) ==
    /\ Spatial = "unbound"
    /\ ret.op = "init"
    /\ conf' = c
    /\ itype' = read_itype(c)
    /\ Spatial' = select(read_itype(c))
    /\ ret' = Ret("import", NoOperand,
                  IF IsExc(read_itype(c)) THEN Raise(read_itype(c).k)
                  ELSE None)
    /\ UNCHANGED <<sup, cols, radec>>

LonOk(rd) ==
    rd.k = "str" /\ rd.v[1].w = "num" => rd.v[1].n <= 180 + 180 * MaxTurns

\* obj.ra = v
SetRa(i, v) ==
    /\ Spatial \in Backends
    /\ sup' = [sup EXCEPT ![i].ra = Float(v)]
    /\ IF Spatial = "PostGISSpatialBackend"
       THEN /\ radec' = [radec EXCEPT ![i] = ra_set(radec[i], v).radec]
            /\ ret' = Ret("set_ra", NoOperand, ra_set(radec[i], v).exc)
            /\ UNCHANGED cols
       ELSE /\ cols' = [cols EXCEPT ![i].ra = Float(v)]
            /\ ret' = Ret("set_ra", NoOperand, None)
            /\ UNCHANGED radec
    /\ UNCHANGED <<conf, itype, Spatial>>

\* obj.dec = v
SetDec(i, v) ==
    /\ Spatial \in Backends
    /\ sup' = [sup EXCEPT ![i].dec = Float(v)]
    /\ IF Spatial = "PostGISSpatialBackend"
       THEN /\ LonOk(dec_set(radec[i], v).radec)
            /\ radec' = [radec EXCEPT ![i] = dec_set(radec[i], v).radec]
            /\ ret' = Ret("set_dec", NoOperand, dec_set(radec[i], v).exc)
            /\ UNCHANGED cols
       ELSE /\ cols' = [cols EXCEPT ![i].dec = Float(v)]
            /\ ret' = Ret("set_dec", NoOperand, None)
            /\ UNCHANGED radec
    /\ UNCHANGED <<conf, itype, Spatial>>

\* obj.ra and obj.dec as the active backend reports them
ra(i) == IF Spatial = "PostGISSpatialBackend" THEN ra_get(radec[i])
         ELSE cols[i].ra

dec(i) == IF Spatial = "PostGISSpatialBackend" THEN dec_get(radec[i])
          ELSE cols[i].dec

\* a getter that initializes the placeholder as the setters do
GetRa_initializing(i) ==
    /\ Spatial \in Backends
    /\ ret' = Ret("get_ra", NoOperand, ra(i))
    /\ radec' = [radec EXCEPT ![i] = IF Spatial = "PostGISSpatialBackend"
                                          /\ radec[i].k = "None"
                                       THEN DEFAULT ELSE radec[i]]
    /\ UNCHANGED <<conf, itype, Spatial, sup, cols>>

GetRa(i) ==
    /\ Spatial \in Backends
    /\ ret' = Ret("get_ra", NoOperand, ra(i))
    /\ UNCHANGED <<conf, itype, Spatial, sup, cols, radec>>

GetDec(i) ==
    /\ Spatial \in Backends
    /\ ret' = Ret("get_dec", NoOperand, dec(i))
    /\ UNCHANGED <<conf, itype, Spatial, sup, cols, radec>>

\* the Object class bound to row i, and the instance i
Row(i) == Operand("class", Spatial, cols[i].ra, cols[i].dec, radec[i])

Inst(i) == Operand("instance", Spatial, cols[i].ra, cols[i].dec, radec[i])

\* the active backend's distance: an expression with its value in arcsec, or
\* the exception raised
distance(self, other) ==
    CASE Spatial = "UnindexedSpatialBackend" -> none_distance(self, other)
      [] Spatial = "Q3CSpatialBackend" -> q3c_distance(self, other)
      [] Spatial = "PostGISSpatialBackend" -> postgis_distance(self, other)

\* the active backend's radially_within: an expression with its value
\* ("true", "false", "null"), or the exception raised
radially_within(self, other, r) ==
    CASE Spatial = "UnindexedSpatialBackend" ->
             none_radially_within(self, other, r)
      [] Spatial = "Q3CSpatialBackend" ->
             LET e == q3c_radially_within(self, other, r)
             IN  IF IsExc(e) THEN e ELSE Expr(e.fn, q3c_eval(e))
      [] Spatial = "PostGISSpatialBackend" ->
             postgis_radially_within(self, other, r)

\* the store takes every carrier's row: a geography text must parse
Storable(i) == Geog(radec[i]).ok # "error"

Flushed == \A i \in Objs : Storable(i)

\* query(Object.distance(objs[j])), read at row i
Distance(i, j) ==
    /\ Spatial \in Backends
    /\ ret' = Ret("distance", Inst(j),
                  IF Flushed THEN distance(Row(i), Inst(j))
                  ELSE Raise("DataError"))
    /\ UNCHANGED <<conf, itype, Spatial, sup, cols, radec>>

filter(j, r) ==
    {i \in Objs : radially_within(Row(i), Inst(j), r).v = "true"}

join(r) ==
    {p \in Objs \X Objs : radially_within(Row(p[1]), Row(p[2]), r).v = "true"}

\* query(Object).filter(Object.radially_within(objs[j], r))
Filter(j, r) ==
    /\ Spatial \in Backends
    /\ ret' = Ret("filter", Inst(j),
                  IF Flushed THEN [k |-> "rows", v |-> filter(j, r)]
                  ELSE Raise("DataError"))
    /\ UNCHANGED <<conf, itype, Spatial, sup, cols, radec>>

\* query(o1, o2).join(o2, o1.radially_within(o2, r))
Join(r) ==
    /\ Spatial \in Backends
    /\ ret' = Ret("join", Row(1),
                  IF Flushed THEN [k |-> "rows", v |-> join(r)]
                  ELSE Raise("DataError"))
    /\ UNCHANGED <<conf, itype, Spatial, sup, cols, radec>>

\* values that are neither an instance nor a class of the active backend:
\* a number, a class without coordinates, an object that exposes ra, dec
\* and radec, and an instance of another backend
OtherBackend ==
    IF Spatial = "UnindexedSpatialBackend" THEN "Q3CSpatialBackend"
    ELSE "UnindexedSpatialBackend"

Others ==
    { Operand("number", "int", None, None, NoText),
      Operand("class", "Unrelated", None, None, NoText),
      Operand("instance", "Duck", Float(0), Float(0),
              Point(Format(Float(-180)), Format(Float(0)))),
      Operand("instance", OtherBackend, Float(0), Float(0), NoText) }

\* Object.distance(o) on a value o of Others, building the expression only
DistanceOther(o) ==
    /\ Spatial \in Backends
    /\ ret' = Ret("distance", o, distance(Row(1), o))
    /\ UNCHANGED <<conf, itype, Spatial, sup, cols, radec>>

\* Object.radially_within(o, r) on a value o of Others
RadiallyWithinOther(o, r) ==
    /\ Spatial \in Backends
    /\ ret' = Ret("radially_within", o, radially_within(Row(1), o, r))
    /\ UNCHANGED <<conf, itype, Spatial, sup, cols, radec>>

Radii == {3600, 216000, 300000}

Next ==
    \/ \E c \in ConfVals : Import(c)
    \/ \E i \in Objs, v \in RaVals : SetRa(i, v)
    \/ \E i \in Objs, v \in DecVals : SetDec(i, v)
    \/ \E i \in Objs : GetRa(i)
    \/ \E i \in Objs : GetDec(i)
    \/ \E i \in Objs, j \in Objs : Distance(i, j)
    \/ \E j \in Objs, r \in Radii : Filter(j, r)
    \/ \E r \in Radii : Join(r)
    \/ \E o \in Others : DistanceOther(o)
    \/ \E o \in Others, r \in Radii : RadiallyWithinOther(o, r)

Spec == Init /\ [][Next]_vars

----------------------------------------------------------------------------
(* The arithmetic of UnindexedSpatialBackend.distance on its own.  The      *)
(* store computes the sum of cosines in double precision: what it obtains   *)
(* is the exact sum plus a roundoff of e / RoundoffDen, |e| <= MaxRoundoff.  *)
(* ret.val holds the sum x, the clamped value and the distance as the       *)
(* expression computes them, one step of none.py:53-55 at a time.           *)

MaxRoundoff == 2

RoundoffDen == 1000000

Roundoff == {Rat(e, RoundoffDen, 0, 0) : e \in -MaxRoundoff .. MaxRoundoff}

ClampRa == {0, 60, 180}

ClampDec == {-90, 0, 90}

ClampPoints == {[ra |-> Float(r), dec |-> Float(d)] : r \in ClampRa, d \in ClampDec}

\* the values acos is exact at
Tabulated(x) ==
    x \in {Num(-1), Rat(-1, 2, 0, 0), Num(0), Rat(1, 2, 0, 0), Num(1)}

ClampInit ==
    /\ conf = [has |-> TRUE, val |-> Cfg("None", "")]
    /\ itype = read_itype(conf)
    /\ Spatial = select(itype)
    /\ cols \in [Objs -> ClampPoints]
    /\ sup = cols
    /\ radec = [i \in Objs |-> NoText]
    /\ \E e \in Roundoff :
           ret = Ret("cos_sum", Inst(2),
                     [x |-> Add(none_cos_sum(Bind(cols[1].ra), Bind(cols[1].dec),
                                             Bind(cols[2].ra), Bind(cols[2].dec)),
                                e),
                      safe |-> Null, dist |-> Null])

\* none.py:53
ClampGreatest ==
    /\ ret.op = "cos_sum"
    /\ ret' = [ret EXCEPT !.op = "greatest",
                          !.val.safe = roundoff_safe_greatest(ret.val.x)]
    /\ UNCHANGED <<conf, itype, Spatial, sup, cols, radec>>

\* none.py:54
ClampLeast ==
    /\ ret.op = "greatest"
    /\ ret' = [ret EXCEPT !.op = "least",
                          !.val.safe = roundoff_safe_least(ret.val.safe)]
    /\ UNCHANGED <<conf, itype, Spatial, sup, cols, radec>>

\* none.py:55, where acos is exact
ClampAcos ==
    /\ ret.op = "least"
    /\ Tabulated(ret.val.safe)
    /\ ret' = [ret EXCEPT !.op = "acos",
                          !.val.dist = none_arcsec(ret.val.safe)]
    /\ UNCHANGED <<conf, itype, Spatial, sup, cols, radec>>

ClampNext == ClampGreatest \/ ClampLeast \/ ClampAcos

SpecClamp == ClampInit /\ [][ClampNext]_vars

----------------------------------------------------------------------------
(* Properties *)

IsPostGIS == Spatial = "PostGISSpatialBackend"

\* two values of the packed column are the same text (or both None)
Same(rd1, rd2) == rd1.k = rd2.k /\ (rd1.k = "str" => rd1.v = rd2.v)

\* both coordinates of carrier i have been written by the caller
BothSet(i) == sup[i].ra.k = "float" /\ sup[i].dec.k = "float"

\* row i holds a point, and the position the store holds for it
IsPoint(i) ==
    IF IsPostGIS THEN Geog(radec[i]).ok = "geog"
    ELSE cols[i].ra.k = "float" /\ cols[i].dec.k = "float"

StoredRa(i) == IF IsPostGIS THEN Geog(radec[i]).lon + 180 ELSE cols[i].ra.v

StoredDec(i) == IF IsPostGIS THEN Geog(radec[i]).lat ELSE cols[i].dec.v

\* separation in arcsec of the stored positions of rows i and j
StoredSep(i, j) ==
    3600 * SepDeg(StoredRa(i), StoredDec(i), StoredRa(j), StoredDec(j))

\* separation in arcsec of the positions the caller supplied
SuppliedSep(i, j) ==
    3600 * SepDeg(sup[i].ra.v, sup[i].dec.v, sup[j].ra.v, sup[j].dec.v)

Truth(b) == IF b THEN "true" ELSE "false"

\* C1: PostGIS round trip.  A fresh carrier written ra = v then dec = d, or
\* dec = d then ra = v, reads back ra = v and dec = d.
C1_RoundTrip ==
    [][\A i \in Objs, v \in RaVals, d \in DecVals :
         /\ (IsPostGIS /\ Same(radec[i], ra_set(NoText, v).radec) /\ SetDec(i, d))
              => (ra_get(radec'[i]) = Float(v) /\ dec_get(radec'[i]) = Float(d))
         /\ (IsPostGIS /\ Same(radec[i], dec_set(NoText, d).radec) /\ SetRa(i, v))
              => (ra_get(radec'[i]) = Float(v) /\ dec_get(radec'[i]) = Float(d))
      ]_vars

\* C2: PostGIS unresolved geometry.  While the caller has not written both
\* ra and dec of a carrier, its ra getter and its dec getter both return None.
C2_UnsetWhileIncomplete ==
    IsPostGIS =>
        \A i \in Objs :
            ~BothSet(i) =>
                ra_get(radec[i]) = None /\ dec_get(radec[i]) = None

\* C3: cross-strategy agreement.  Under whichever backend is active, for
\* carriers whose ra and dec have both been written, distance and
\* radially_within equal the great-circle reference of the values supplied.
C3_AgreesWithSupplied ==
    (Spatial \in Backends /\ Flushed) =>
        \A i \in Objs, j \in Objs :
            (BothSet(i) /\ BothSet(j)) =>
                /\ distance(Row(i), Inst(j)).v = Num(SuppliedSep(i, j))
                /\ \A r \in Radii :
                       radially_within(Row(i), Inst(j), r).v
                           = Truth(SuppliedSep(i, j) <= r)

\* C4: radial selection is exact.  On a table whose rows all hold points, the
\* filter against instance j returns exactly the rows within r of j's stored
\* position, and the self join exactly the ordered pairs within r, the pairs
\* (i, i) among them.
C4_RadialSelectionExact ==
    (Spatial \in Backends /\ \A i \in Objs : IsPoint(i)) =>
        \A r \in Radii :
            /\ \A j \in Objs :
                   filter(j, r) = {i \in Objs : StoredSep(i, j) <= r}
            /\ join(r) = {p \in Objs \X Objs : StoredSep(p[1], p[2]) <= r}
            /\ \A i \in Objs : <<i, i>> \in join(r)

\* a join has run over two rows at distinct positions 60 degrees apart and
\* returned the pair at the boundary radius and the diagonal
C4_Witness ==
    /\ Spatial = "Q3CSpatialBackend"
    /\ \A i \in Objs : IsPoint(i)
    /\ StoredSep(1, 2) = 216000
    /\ ret.op = "join"
    /\ ret.val.k = "rows"
    /\ join(216000) = Objs \X Objs
    /\ join(3600) = {<<i, i>> : i \in Objs}
    /\ ret.val.v = join(3600)

\* C5: under each backend, in the filter and in the join shape,
\* radially_within(a, b, r) is distance(a, b) <= r, the boundary included.
C5_WithinIsDistanceLeq ==
    (Spatial \in Backends /\ Flushed) =>
        \A i \in Objs, j \in Objs, r \in Radii :
            /\ radially_within(Row(i), Inst(j), r).v
                   = Leq(distance(Row(i), Inst(j)).v, Num(r))
            /\ radially_within(Row(i), Row(j), r).v
                   = Leq(distance(Row(i), Row(j)).v, Num(r))

\* the PostGIS filter has returned a row whose distance equals the radius
C5_Witness ==
    /\ IsPostGIS
    /\ Flushed
    /\ ret.op = "filter"
    /\ ret.val.k = "rows"
    /\ \E i \in Objs, j \in Objs :
           /\ distance(Row(i), Inst(j)).v = Num(216000)
           /\ ret.val.v = filter(j, 216000)
           /\ i \in ret.val.v
           /\ i \notin filter(j, 3600)

\* C6: radius containment symmetry.  For carriers holding points,
\* radially_within(a, b, r) and radially_within(b, a, r) have the same value.
C6_Symmetric ==
    (Spatial \in Backends) =>
        \A i \in Objs, j \in Objs, r \in Radii :
            (IsPoint(i) /\ IsPoint(j)) =>
                radially_within(Row(i), Inst(j), r).v
                    = radially_within(Row(j), Inst(i), r).v

\* the Unindexed filter has run on two carriers at distinct positions
C6_Witness ==
    /\ Spatial = "UnindexedSpatialBackend"
    /\ IsPoint(1) /\ IsPoint(2)
    /\ StoredRa(1) # StoredRa(2)
    /\ StoredSep(1, 2) = 216000
    /\ ret.op = "filter"
    /\ ret.val.k = "rows"
    /\ radially_within(Row(1), Inst(2), 216000).v = "true"
    /\ radially_within(Row(2), Inst(1), 3600).v = "false"

\* the configured value names a backend clock.py recognizes
Recognized(c, name) == c.has /\ c.val.k = "str" /\ lower(c.val.v) = name

\* C7: strategy default.  Once the selection has run, an absent, null or
\* unrecognized index_type has selected Unindexed without an error, and
\* postgis and q3c have selected their backends.
C7_StrategyDefault ==
    ret.op # "init" =>
        /\ Recognized(conf, "postgis") => IsPostGIS
        /\ Recognized(conf, "q3c") => Spatial = "Q3CSpatialBackend"
        /\ (~Recognized(conf, "postgis") /\ ~Recognized(conf, "q3c"))
               => Spatial = "UnindexedSpatialBackend"

\* the last call was made on a value that is neither an instance nor a class
\* of the active backend
InvalidTarget ==
    /\ ret.op \in {"distance", "radially_within"}
    /\ ~(ret.okind \in {"instance", "class"} /\ ret.ocls = Spatial)

\* C8: Q3C radially_within on an invalid target raises the usage error
\* (ValueError) of q3c.py.
C8_Q3CInvalidTargetValueError ==
    (Spatial = "Q3CSpatialBackend" /\ ret.op = "radially_within"
         /\ InvalidTarget)
        => ret.val.k = "ValueError"

\* C9: under every backend, distance and radially_within on an invalid
\* target raise and produce no expression.
C9_InvalidTargetRejected ==
    InvalidTarget => IsExc(ret.val)

\* C10: PostGIS writes are safe.  No call of the ra setter or of the dec
\* setter raises.
C10_SettersNeverRaise ==
    (IsPostGIS /\ ret.op \in {"set_ra", "set_dec"}) => ~IsExc(ret.val)

\* the value the store holds for carrier i is a whole point, or nothing at all
StoredComplete(i) == IsPoint(i)

StoredEmpty(i) ==
    IF IsPostGIS THEN Geog(radec[i]).ok = "null"
    ELSE cols[i].ra.k = "None" /\ cols[i].dec.k = "None"

\* C11: carrier completeness.  Under every backend, a carrier the store
\* accepts holds both coordinates or neither: never one coordinate alone.
C11_CompleteOrEmpty ==
    (Spatial \in Backends) =>
        \A i \in Objs :
            Storable(i) => (StoredComplete(i) \/ StoredEmpty(i))

\* C12: PostGIS setter frame.  On a carrier whose packed value is a point,
\* setting dec leaves what the ra getter returns unchanged, and setting ra
\* leaves what the dec getter returns unchanged, at every such call.
C12_SetterFrame ==
    [][\A i \in Objs, v \in RaVals, d \in DecVals :
         /\ (IsPostGIS /\ StoredComplete(i) /\ ret'.op = "set_dec"
                 /\ SetDec(i, d))
              => ra_get(radec'[i]) = ra_get(radec[i])
         /\ (IsPostGIS /\ StoredComplete(i) /\ ret'.op = "set_ra"
                 /\ SetRa(i, v))
              => dec_get(radec'[i]) = dec_get(radec[i])
      ]_vars

\* C13: PostGIS storage offset.  Whenever the packed value of a carrier is a
\* point, its longitude is the last ra written minus 180, within -180 .. 179,
\* and its latitude is the last dec written.
C13_StorageOffset ==
    IsPostGIS =>
        \A i \in Objs :
            StoredComplete(i) =>
                /\ Geog(radec[i]).lon = sup[i].ra.v - 180
                /\ Geog(radec[i]).lon >= -180
                /\ Geog(radec[i]).lon < 180
                /\ Geog(radec[i]).lat = sup[i].dec.v

\* the expression fn(other.ra, other.dec, self.ra, self.dec, r / 3600) over
\* row i as self and carrier j as other
Q3CExpr(fn, i, j, r) ==
    [k |-> "expr", fn |-> fn,
     args |-> <<Bind(cols[j].ra), Bind(cols[j].dec),
                Bind(cols[i].ra), Bind(cols[i].dec), Rat(r, 3600, 0, 0)>>]

\* C14: Q3C dispatch.  radially_within against an instance builds
\* q3c_radial_query, against the class q3c_join, and nothing else; both take
\* (other.ra, other.dec, self.ra, self.dec, radius in arcsec / 3600).
C14_Q3CDispatch ==
    (Spatial = "Q3CSpatialBackend") =>
        \A i \in Objs, j \in Objs, r \in Radii :
            /\ q3c_radially_within(Row(i), Inst(j), r)
                   = Q3CExpr("q3c_radial_query", i, j, r)
            /\ q3c_radially_within(Row(i), Row(j), r)
                   = Q3CExpr("q3c_join", i, j, r)

\* the Q3C filter has run over two carriers that differ in ra and in dec
C14_Witness ==
    /\ Spatial = "Q3CSpatialBackend"
    /\ IsPoint(1) /\ IsPoint(2)
    /\ cols[1].ra # cols[2].ra
    /\ cols[1].dec # cols[2].dec
    /\ ret.op = "filter"
    /\ ret.okind = "instance"
    /\ ret.val.k = "rows"
    /\ q3c_radially_within(Row(1), Inst(2), 3600).fn = "q3c_radial_query"
    /\ q3c_radially_within(Row(1), Row(2), 3600).fn = "q3c_join"

\* min(max(x, -1), 1)
MinMax(x) ==
    IF Less(x, Num(-1)) THEN Num(-1) ELSE IF Less(Num(1), x) THEN Num(1) ELSE x

InRange(x) == ~Less(x, Num(-1)) /\ ~Less(Num(1), x)

\* the exact great-circle separation in arcsec of the two points of cols
ExactSep == 3600 * SepDeg(cols[1].ra.v, cols[1].dec.v, cols[2].ra.v, cols[2].dec.v)

ReadOps == {"get_ra", "get_dec", "distance", "radially_within", "filter", "join"}

\* C16: no side effects.  Under every backend a call of distance or
\* radially_within, and a read of ra or dec, leaves the ra/dec columns and the
\* packed value of every carrier as they were, so a getter read next returns
\* what it returned before the call, and what a getter returned it returns
\* again.
C16_ReadOnly ==
    [][ret'.op \in ReadOps =>
          /\ cols' = cols
          /\ radec' = radec
          /\ \A i \in Objs : ra(i)' = ra(i) /\ dec(i)' = dec(i)
          /\ ret'.op = "get_ra" => \E i \in Objs : ret'.val = ra(i)'
          /\ ret'.op = "get_dec" => \E i \in Objs : ret'.val = dec(i)'
      ]_vars

\* PostGIS: the ra getter has returned a number on a carrier holding a point
\* while the other carrier is still unset
C16_Witness ==
    /\ IsPostGIS
    /\ ret.op = "get_ra"
    /\ ret.val.k = "float"
    /\ \E i \in Objs, j \in Objs :
           /\ StoredComplete(i)
           /\ ret.val = ra_get(radec[i])
           /\ radec[j] = NoText

=============================================================================
